---- MODULE Spec2Model ----
\* Card collections of deckboxdiff (src/deckboxdiff/diff.py): Card, CardSet and the
\* operations on them, over a heap of Card objects so that two collections holding
\* the same object is visible.
EXTENDS Integers, Sequences, FiniteSets, TLC

VARIABLES
    heap,    \* the Card objects: heap[r] is the object with reference r
    cards,   \* cards[s]: CardSet.cards of collection s, a dict in insertion order
    types,   \* types[s]: CardSet.types of collection s, a defaultdict(list)
    added,   \* added[s]: the cards passed to s.add_card so far, as they were then
    origin,  \* how the collection bound to "R" was built
    last     \* the most recent call and what it returned or raised

vars == <<heap, cards, types, added, origin, last>>

----------------------------------------------------------------------------
\* Bounds of the model

\* rows ingested into the two exports together, where collections are compared
MaxRows == 3

\* rows ingested into the two exports together, where cards are priced
MaxPricedRows == 2

\* (edition, card_number) of the rows; strings stand as their rank in str order
Printings == {<<1, 2>>, <<2, 1>>}

\* Condition column of the rows
Conditions == {"", "Played"}

\* Count column of the rows
Counts == {2, 3}

\* Price column of the rows, in cents; <<>> is a blank cell
Prices == {<<>>, <<200>>, <<500>>}

\* the collections: the two exports and the result of a diff_set or a union
Exports == {"A", "B"}
Sets == {"A", "B", "R"}

\* where a CardSet under construction lives until it is returned
New == "new_set"

----------------------------------------------------------------------------
\* Card

\* price multipliers in hundredths
CONDITION_PRICE_MULTIPLIERS ==
    [c \in {"", "Mint", "Near Mint", "Good (Lightly Played)", "Played",
            "Heavily Played", "Poor"} |->
        CASE c = "" -> 100
          [] c = "Mint" -> 100
          [] c = "Near Mint" -> 100
          [] c = "Good (Lightly Played)" -> 85
          [] c = "Played" -> 70
          [] c = "Heavily Played" -> 50
          [] c = "Poor" -> 25]

\* None, for a price (a one-element tuple holds a Decimal) and for a reference
None == <<>>
NoCard == 0

\* Card.from_deckbox_row: the Card of one row; blank flag cells become ''
\* (rank 0), the price cell is parsed or left None, the My Price cell is blank
from_deckbox_row(printing, condition, count, price) ==
    [edition |-> printing[1], card_number |-> printing[2], name |-> 1,
     language |-> 1, foil |-> 0, signed |-> 0, artist_proof |-> 0,
     altered_art |-> 0, misprint |-> 0, promo |-> 0, textless |-> 0,
     image_url |-> <<1, 1>>, condition |-> condition, count |-> count,
     price |-> price, my_price |-> None]

\* Card.from_deckbox_row of a row whose My Price cell is my_price
from_deckbox_row_my_price(printing, condition, count, price, my_price) ==
    [from_deckbox_row(printing, condition, count, price)
        EXCEPT !.my_price = my_price]

\* the rows an export may hold
Rows(conditions, counts, prices) ==
    {from_deckbox_row(p, c, n, pr) :
        p \in Printings, c \in conditions, n \in counts, pr \in prices}

\* Card.image_file_name: the last segment of the url
image_file_name(card) == card.image_url[Len(card.image_url)]

\* Card.type
type(card) ==
    <<card.edition, card.card_number, card.name, card.language, card.foil,
      card.signed, card.artist_proof, card.altered_art, card.misprint,
      card.promo, card.textless, image_file_name(card)>>

\* Card.identity
identity(card) == type(card) \o <<card.condition>>

\* rank of a condition string in Python's str order
StrRank(c) ==
    CASE c = "" -> 0
      [] c = "Good (Lightly Played)" -> 1
      [] c = "Heavily Played" -> 2
      [] c = "Mint" -> 3
      [] c = "Near Mint" -> 4
      [] c = "Played" -> 5
      [] c = "Poor" -> 6

\* Python's tuple comparison k1 < k2 of two identity keys
RECURSIVE TupleLessFrom(_, _, _)
TupleLessFrom(k1, k2, i) ==
    IF i > Len(k1) \/ i > Len(k2) THEN Len(k1) < Len(k2)
    ELSE LET a == IF i = Len(k1) THEN StrRank(k1[i]) ELSE k1[i]
             b == IF i = Len(k2) THEN StrRank(k2[i]) ELSE k2[i]
         IN  IF a = b THEN TupleLessFrom(k1, k2, i + 1) ELSE a < b

IdentityLess(k1, k2) == TupleLessFrom(k1, k2, 1)

\* Card.clone without the deep copy: the same object, its count overwritten
CloneAliased(w, r, count) ==
    [w |-> IF count = None THEN w
           ELSE [w EXCEPT !.heap[r].count = count[1]],
     ref |-> r]

\* Card.clone: a deep copy of object r as a new object, its count overridden
\* unless count is None
clone(w, r, count) ==
    LET copy == w.heap[r]
        new_clone == IF count = None THEN copy
                     ELSE [copy EXCEPT !.count = count[1]]
    IN  [w |-> [w EXCEPT !.heap = Append(@, new_clone)],
         ref |-> Len(w.heap) + 1]

\* Card.condition_adjusted_price: None, or the price times the multiplier of
\* the card's condition, in hundredths of a cent; the lookup of a condition
\* that the table lacks raises KeyError
condition_adjusted_price(card) ==
    IF card.price = None THEN [kind |-> "value", value |-> None]
    ELSE IF card.condition \in DOMAIN CONDITION_PRICE_MULTIPLIERS
    THEN [kind |-> "value",
          value |-> <<card.price[1] * CONDITION_PRICE_MULTIPLIERS[card.condition]>>]
    ELSE [kind |-> "KeyError", value |-> None]

\* Card.total_price: None, or price * count
Card_total_price(card) ==
    IF card.price = None THEN None ELSE <<card.price[1] * card.count>>

\* Card.total_condition_adjusted_price: None, or condition_adjusted_price * count
Card_total_condition_adjusted_price(card) ==
    IF card.price = None THEN [kind |-> "value", value |-> None]
    ELSE LET adjusted == condition_adjusted_price(card)
         IN  IF adjusted.kind # "value" THEN adjusted
             ELSE [kind |-> "value", value |-> <<adjusted.value[1] * card.count>>]

\* Card.total_my_price: None, or count * my_price
Card_total_my_price(card) ==
    IF card.my_price = None THEN None ELSE <<card.count * card.my_price[1]>>

----------------------------------------------------------------------------
\* CardSet

\* the state as one value, for the operators below
World == [heap |-> heap, cards |-> cards, types |-> types, added |-> added]

\* position of key k in the dict d, 0 when absent
Find(d, k) ==
    IF \E i \in 1..Len(d) : d[i].key = k
    THEN CHOOSE i \in 1..Len(d) : d[i].key = k
    ELSE 0

\* CardSet.__init__ for the collection s
CardSet(w, s) ==
    [w EXCEPT !.cards[s] = <<>>, !.types[s] = <<>>, !.added[s] = <<>>]

\* CardSet.match: the reference of the record with card's identity, or None
match(w, s, card) ==
    LET i == Find(w.cards[s], identity(card))
    IN  IF i = 0 THEN NoCard ELSE w.cards[s][i].ref

\* CardSet.contains
contains(w, s, other_card) ==
    LET self_card == match(w, s, other_card)
    IN  self_card # NoCard /\ w.heap[self_card].count = other_card.count

\* CardSet.contains_type
contains_type(w, s, card) == type(card) \in DOMAIN w.types[s]

\* __eq__ without its second loop: every record of x is contained in y
EqOneWay(w, x, y) ==
    \A i \in 1..Len(w.cards[x]) :
        contains(w, y, w.heap[w.cards[x][i].ref])

\* CardSet.__eq__: x == y
__eq__(w, x, y) ==
    /\ \A i \in 1..Len(w.cards[x]) :
           contains(w, y, w.heap[w.cards[x][i].ref])
    /\ \A i \in 1..Len(w.cards[y]) :
           LET other_card == w.heap[w.cards[y][i].ref]
               self_card == match(w, x, other_card)
           IN  ~(self_card = NoCard \/ ~(other_card.count = w.heap[self_card].count))

\* CardSet.__len__: the sum of the counts of the records from place i on
RECURSIVE LenFrom(_, _, _)
LenFrom(w, s, i) ==
    IF i > Len(w.cards[s]) THEN 0
    ELSE w.heap[w.cards[s][i].ref].count + LenFrom(w, s, i + 1)

__len__(w, s) == LenFrom(w, s, 1)

\* CardSet.total_price: the sum of total_price over the records, from place
\* i on, whose total_price is not None; in cents
RECURSIVE TotalPriceFrom(_, _, _)
TotalPriceFrom(w, s, i) ==
    IF i > Len(w.cards[s]) THEN 0
    ELSE LET t == Card_total_price(w.heap[w.cards[s][i].ref])
         IN  (IF t = None THEN 0 ELSE t[1]) + TotalPriceFrom(w, s, i + 1)

total_price(w, s) == TotalPriceFrom(w, s, 1)

\* CardSet.total_condition_adjusted_price: the sum of
\* total_condition_adjusted_price over the records, from place i on, whose
\* total_price is not None, acc summed so far; the KeyError of a record ends it
RECURSIVE TotalAdjustedFrom(_, _, _, _)
TotalAdjustedFrom(w, s, i, acc) ==
    IF i > Len(w.cards[s]) THEN [kind |-> "value", value |-> acc]
    ELSE LET card == w.heap[w.cards[s][i].ref]
         IN  IF Card_total_price(card) = None
             THEN TotalAdjustedFrom(w, s, i + 1, acc)
             ELSE LET t == Card_total_condition_adjusted_price(card)
                  IN  IF t.kind # "value" THEN [kind |-> t.kind, value |-> 0]
                      ELSE TotalAdjustedFrom(w, s, i + 1, acc + t.value[1])

total_condition_adjusted_price(w, s) == TotalAdjustedFrom(w, s, 1, 0)

\* CardSet.total_my_price: the sum of total_my_price over the records, from
\* place i on, whose total_my_price is not None; in cents
RECURSIVE TotalMyPriceFrom(_, _, _)
TotalMyPriceFrom(w, s, i) ==
    IF i > Len(w.cards[s]) THEN 0
    ELSE LET t == Card_total_my_price(w.heap[w.cards[s][i].ref])
         IN  (IF t = None THEN 0 ELSE t[1]) + TotalMyPriceFrom(w, s, i + 1)

total_my_price(w, s) == TotalMyPriceFrom(w, s, 1)

\* add_card that replaces the record of the key instead of summing the counts
AddCardReplacing(w, s, r) ==
    LET card == w.heap[r]
        k == identity(card)
        t == type(card)
        i == Find(w.cards[s], k)
    IN  [heap |-> w.heap,
         cards |-> IF i # 0
                   THEN [w.cards EXCEPT ![s][i] = [key |-> k, ref |-> r]]
                   ELSE [w.cards EXCEPT ![s] = Append(@, [key |-> k, ref |-> r])],
         types |-> [w.types EXCEPT ![s] =
                      IF t \in DOMAIN @ THEN [@ EXCEPT ![t] = Append(@, r)]
                      ELSE @ @@ (t :> <<r>>)],
         added |-> [w.added EXCEPT ![s] = Append(@, card)]]

\* CardSet.add_card of the object r
add_card(w, s, r) ==
    LET card == w.heap[r]
        k == identity(card)
        t == type(card)
        i == Find(w.cards[s], k)
    IN  [heap |-> IF i # 0
                  THEN [w.heap EXCEPT ![w.cards[s][i].ref].count = @ + card.count]
                  ELSE w.heap,
         cards |-> IF i # 0 THEN w.cards
                   ELSE [w.cards EXCEPT ![s] = Append(@, [key |-> k, ref |-> r])],
         types |-> [w.types EXCEPT ![s] =
                      IF t \in DOMAIN @ THEN [@ EXCEPT ![t] = Append(@, r)]
                      ELSE @ @@ (t :> <<r>>)],
         added |-> [w.added EXCEPT ![s] = Append(@, card)]]

\* add_card of each object of refs, in order
RECURSIVE AddAll(_, _, _, _)
AddAll(w, s, refs, i) ==
    IF i > Len(refs) THEN w
    ELSE AddAll(add_card(w, s, refs[i]), s, refs, i + 1)

\* cards.values() of a collection
Values(w, s) == [i \in 1..Len(w.cards[s]) |-> w.cards[s][i].ref]

\* first loop of iter_diff: the records of x from position i on, against y
RECURSIVE DiffSelf(_, _, _, _, _)
DiffSelf(w, x, y, i, out) ==
    IF i > Len(w.cards[x]) THEN [w |-> w, out |-> out]
    ELSE LET r == w.cards[x][i].ref
             card == w.heap[r]
             other_card == match(w, y, card)
         IN  IF other_card = NoCard
             THEN LET c == clone(w, r, <<0 - card.count>>)
                  IN  DiffSelf(c.w, x, y, i + 1, Append(out, c.ref))
             ELSE IF w.heap[other_card].count # card.count
             THEN LET c == clone(w, r, <<w.heap[other_card].count - card.count>>)
                  IN  DiffSelf(c.w, x, y, i + 1, Append(out, c.ref))
             ELSE DiffSelf(w, x, y, i + 1, out)

\* second loop of iter_diff: the records of y that x does not match
RECURSIVE DiffOther(_, _, _, _, _)
DiffOther(w, x, y, i, out) ==
    IF i > Len(w.cards[y]) THEN [w |-> w, out |-> out]
    ELSE LET r == w.cards[y][i].ref
             self_match == match(w, x, w.heap[r])
         IN  IF self_match = NoCard
             THEN LET c == clone(w, r, None)
                  IN  DiffOther(c.w, x, y, i + 1, Append(out, c.ref))
             ELSE DiffOther(w, x, y, i + 1, out)

\* iter_diff that yields a record for every key of x, equal counts included
IterDiffKeepingEqual(w, x, y) ==
    LET first == [i \in 1..Len(w.cards[x]) |->
                    LET card == w.heap[w.cards[x][i].ref]
                        o == match(w, y, card)
                    IN  [card EXCEPT !.count =
                           IF o = NoCard THEN 0 - card.count
                           ELSE w.heap[o].count - card.count]]
        w1 == [w EXCEPT !.heap = @ \o first]
        refs == [i \in 1..Len(first) |-> Len(w.heap) + i]
    IN  DiffOther(w1, x, y, 1, refs)

\* the first loop of iter_diff giving the record of a key of both the count
\* of y instead of the difference of the counts
RECURSIVE DiffSelfOtherCount(_, _, _, _, _)
DiffSelfOtherCount(w, x, y, i, out) ==
    IF i > Len(w.cards[x]) THEN [w |-> w, out |-> out]
    ELSE LET r == w.cards[x][i].ref
             card == w.heap[r]
             other_card == match(w, y, card)
         IN  IF other_card = NoCard
             THEN LET c == clone(w, r, <<0 - card.count>>)
                  IN  DiffSelfOtherCount(c.w, x, y, i + 1, Append(out, c.ref))
             ELSE IF w.heap[other_card].count # card.count
             THEN LET c == clone(w, r, <<w.heap[other_card].count>>)
                  IN  DiffSelfOtherCount(c.w, x, y, i + 1, Append(out, c.ref))
             ELSE DiffSelfOtherCount(w, x, y, i + 1, out)

IterDiffOtherCount(w, x, y) ==
    LET first == DiffSelfOtherCount(w, x, y, 1, <<>>)
    IN  DiffOther(first.w, x, y, 1, first.out)

\* iter_diff without its second loop: the records of y alone are not yielded
IterDiffSelfOnly(w, x, y) == DiffSelf(w, x, y, 1, <<>>)

\* CardSet.iter_diff: the records x.iter_diff(y) yields, as new objects
iter_diff(w, x, y) ==
    LET first == DiffSelf(w, x, y, 1, <<>>)
    IN  DiffOther(first.w, x, y, 1, first.out)

\* one step of list.sort(key=identity): r put after the last element whose
\* key is not greater (the sort is stable)
RECURSIVE Insert(_, _, _)
Insert(w, sorted, r) ==
    IF sorted = <<>> THEN <<r>>
    ELSE LET tail == sorted[Len(sorted)]
         IN  IF IdentityLess(identity(w.heap[r]), identity(w.heap[tail]))
             THEN Append(Insert(w, SubSeq(sorted, 1, Len(sorted) - 1), r), tail)
             ELSE Append(sorted, r)

\* differences.sort left out: the records stay in the order iter_diff yields
SortSkipped(w, refs) == refs

\* differences.sort(key=lambda x: x.identity)
RECURSIVE SortFrom(_, _, _, _)
SortFrom(w, refs, i, sorted) ==
    IF i > Len(refs) THEN sorted
    ELSE SortFrom(w, refs, i + 1, Insert(w, sorted, refs[i]))

sort(w, refs) == SortFrom(w, refs, 1, <<>>)

\* CardSet.diff_set: x.diff_set(y), built as the collection New
diff_set(w, x, y) ==
    LET d == iter_diff(w, x, y)
        differences == sort(d.w, d.out)
    IN  AddAll(CardSet(d.w, New), New, differences, 1)

\* add_card of each object of refs whose key the collection does not hold yet
RECURSIVE AddAbsent(_, _, _, _)
AddAbsent(w, s, refs, i) ==
    IF i > Len(refs) THEN w
    ELSE IF match(w, s, w.heap[refs[i]]) # NoCard
    THEN AddAbsent(w, s, refs, i + 1)
    ELSE AddAbsent(add_card(w, s, refs[i]), s, refs, i + 1)

\* __add__ that keeps the record of x for a key of both and drops that of y
UnionFirstWins(w, x, y) ==
    LET new_set == CardSet(w, New)
        with_self == AddAll(new_set, New, Values(new_set, x), 1)
    IN  AddAbsent(with_self, New, Values(with_self, y), 1)

\* CardSet.__add__: x + y, built as the collection New
union(w, x, y) ==
    LET new_set == CardSet(w, New)
        with_self == AddAll(new_set, New, Values(new_set, x), 1)
    IN  AddAll(with_self, New, Values(with_self, y), 1)

\* the caller's assignment of the returned collection: New becomes s
Bind(w, s) ==
    [w EXCEPT !.cards = [@ EXCEPT ![s] = w.cards[New], ![New] = <<>>],
              !.types = [@ EXCEPT ![s] = w.types[New], ![New] = <<>>],
              !.added = [@ EXCEPT ![s] = w.added[New], ![New] = <<>>]]

----------------------------------------------------------------------------
\* Pricing

\* what a call gives back: a value, or the exception it raised. A plain amount
\* is in cents, a condition-adjusted one in hundredths of a cent.
Returned(v) == [kind |-> "value", value |-> v]
Raised(e) == [kind |-> e, value |-> 0]

\* self.types[key] of a defaultdict(list): reading a missing key inserts []
TypesRead(w, s, t) ==
    IF t \in DOMAIN w.types[s] THEN w
    ELSE [w EXCEPT !.types[s] = @ @@ (t :> <<>>)]

\* apply_card_pricing that takes the price of the record inserted last
ApplyCardPricingLatest(w, s, other_card, condition_adjusted) ==
    LET t == type(other_card)
        w1 == TypesRead(w, s, t)
        entries == w1.types[s][t]
    IN  IF entries = <<>>
        THEN [w |-> w1, result |-> Raised("ValueError")]
        ELSE LET price == w1.heap[entries[Len(entries)]].price
             IN  IF price = None
                 THEN [w |-> w1, result |-> Raised("TypeError")]
                 ELSE [w |-> w1,
                       result |-> Returned(other_card.count * price[1]
                           * (IF condition_adjusted
                              THEN CONDITION_PRICE_MULTIPLIERS[other_card.condition]
                              ELSE 1))]

\* apply_card_pricing that catches KeyError alone: the IndexError of the
\* empty list escapes
ApplyCardPricingKeyErrorOnly(w, s, other_card, condition_adjusted) ==
    LET t == type(other_card)
        w1 == TypesRead(w, s, t)
        entries == w1.types[s][t]
    IN  IF entries = <<>>
        THEN [w |-> w1, result |-> Raised("IndexError")]
        ELSE LET price == w1.heap[entries[1]].price
             IN  IF price = None
                 THEN [w |-> w1, result |-> Raised("TypeError")]
                 ELSE [w |-> w1,
                       result |-> Returned(other_card.count * price[1]
                           * (IF condition_adjusted
                              THEN CONDITION_PRICE_MULTIPLIERS[other_card.condition]
                              ELSE 1))]

\* CardSet.apply_card_pricing: s.apply_card_pricing(other_card, condition_adjusted)
apply_card_pricing(w, s, other_card, condition_adjusted) ==
    LET t == type(other_card)
        w1 == TypesRead(w, s, t)
        entries == w1.types[s][t]
    IN  IF entries = <<>>
        THEN [w |-> w1, result |-> Raised("ValueError")]     \* IndexError caught
        ELSE LET price == w1.heap[entries[1]].price
             IN  IF price = None
                 THEN [w |-> w1, result |-> Raised("TypeError")]  \* int * None
                 ELSE IF ~condition_adjusted
                 THEN [w |-> w1, result |-> Returned(other_card.count * price[1])]
                 ELSE IF other_card.condition \in DOMAIN CONDITION_PRICE_MULTIPLIERS
                 THEN [w |-> w1,
                       result |-> Returned(other_card.count * price[1]
                           * CONDITION_PRICE_MULTIPLIERS[other_card.condition])]
                 ELSE [w |-> w1, result |-> Raised("ValueError")]  \* KeyError caught

\* the sum of total_applied_price from record i of a on, acc summed so far
RECURSIVE SumFrom(_, _, _, _, _, _)
SumFrom(w, a, s, condition_adjusted, i, acc) ==
    IF i > Len(w.cards[a]) THEN [w |-> w, result |-> Returned(acc)]
    ELSE LET p == apply_card_pricing(w, s, w.heap[w.cards[a][i].ref],
                                     condition_adjusted)
         IN  IF p.result.kind # "value" THEN p
             ELSE SumFrom(p.w, a, s, condition_adjusted, i + 1,
                          acc + p.result.value)

\* CardSet.total_applied_price: a.total_applied_price(s, condition_adjusted)
total_applied_price(w, a, s, condition_adjusted) ==
    SumFrom(w, a, s, condition_adjusted, 1, 0)

----------------------------------------------------------------------------
\* The calls

\* the record of a call
Call(op, self, other, card, adjusted, result) ==
    [op |-> op, self |-> self, other |-> other, card |-> card,
     adjusted |-> adjusted, result |-> result]

NoResult == Raised("none")

\* the number of add_card calls a collection has received
Entries(s) == Len(added[s])

\* whether the collection exists yet
Exists(s) == s \in Exports \/ origin # "none"

Become(w) ==
    /\ heap' = w.heap
    /\ cards' = w.cards
    /\ types' = w.types
    /\ added' = w.added

Init ==
    /\ heap = <<>>
    /\ cards = [s \in Sets \cup {New} |-> <<>>]
    /\ types = [s \in Sets \cup {New} |-> <<>>]
    /\ added = [s \in Sets \cup {New} |-> <<>>]
    /\ origin = "none"
    /\ last = Call("init", "", "", None, FALSE, NoResult)

\* DeckboxExport.__init__, one row: the row's Card is built and added to the
\* export's card_set. The exports are read, max rows between them, before a
\* result is built from them; one more row may be added to the result of a
\* diff_set or a union right after it is returned.
AddCard(s, row, max) ==
    /\ IF s \in Exports THEN origin = "none" /\ Entries("A") + Entries("B") < max
       ELSE last.op \in {"diff_set", "union"}
    /\ Become(add_card([World EXCEPT !.heap = Append(@, row)], s, Len(heap) + 1))
    /\ last' = Call("add_card", "", "", None, FALSE, NoResult)
    /\ UNCHANGED origin

\* R = x.diff_set(y); the call's record keeps what iter_diff yielded
DiffSet(x, y) ==
    /\ origin = "none"
    /\ Become(Bind(diff_set(World, x, y), "R"))
    /\ origin' = "diff_set"
    /\ LET d == iter_diff(World, x, y)
       IN  last' = Call("diff_set", x, y,
                        [i \in 1..Len(d.out) |-> d.w.heap[d.out[i]]], FALSE, NoResult)

\* R = x + y
Union(x, y) ==
    /\ origin = "none"
    /\ Become(Bind(union(World, x, y), "R"))
    /\ origin' = "union"
    /\ last' = Call("union", x, y, None, FALSE, NoResult)

\* s.apply_card_pricing(c, condition_adjusted) for a record c of some collection
ApplyCardPricing(s, r, condition_adjusted) ==
    /\ Exists(s)
    /\ LET p == apply_card_pricing(World, s, heap[r], condition_adjusted)
       IN  /\ Become(p.w)
           /\ last' = Call("apply_card_pricing", s, "", heap[r],
                           condition_adjusted, p.result)
    /\ UNCHANGED origin

\* a.total_applied_price(s, condition_adjusted)
TotalAppliedPrice(a, s, condition_adjusted) ==
    /\ Exists(a) /\ Exists(s)
    /\ LET p == total_applied_price(World, a, s, condition_adjusted)
       IN  /\ Become(p.w)
           /\ last' = Call("total_applied_price", a, s, None,
                           condition_adjusted, p.result)
    /\ UNCHANGED origin

\* s.match(c)
Match(s, r) ==
    /\ Exists(s)
    /\ last' = Call("match", s, "", heap[r], FALSE,
                    Returned(match(World, s, heap[r])))
    /\ UNCHANGED <<heap, cards, types, added, origin>>

\* s.contains(c)
Contains(s, r) ==
    /\ Exists(s)
    /\ last' = Call("contains", s, "", heap[r], FALSE,
                    Returned(IF contains(World, s, heap[r]) THEN 1 ELSE 0))
    /\ UNCHANGED <<heap, cards, types, added, origin>>

\* s.contains_type(c)
ContainsType(s, r) ==
    /\ Exists(s)
    /\ last' = Call("contains_type", s, "", heap[r], FALSE,
                    Returned(IF contains_type(World, s, heap[r]) THEN 1 ELSE 0))
    /\ UNCHANGED <<heap, cards, types, added, origin>>

\* x == y of two exports, before a result is built from them
Eq(x, y) ==
    /\ origin = "none"
    /\ last' = Call("__eq__", x, y, None, FALSE,
                    Returned(IF __eq__(World, x, y) THEN 1 ELSE 0))
    /\ UNCHANGED <<heap, cards, types, added, origin>>

\* R = x + R right after R = x.diff_set(y); the call's record keeps y
UnionDiff(x) ==
    /\ last.op = "diff_set"
    /\ last.self = x
    /\ Become(Bind(union(World, x, "R"), "R"))
    /\ origin' = "union_diff"
    /\ last' = Call("union_diff", x, last.other, None, FALSE, NoResult)

\* heap[r].condition_adjusted_price
ConditionAdjustedPrice(r) ==
    /\ last' = Call("condition_adjusted_price", "", "", heap[r], FALSE,
                    condition_adjusted_price(heap[r]))
    /\ UNCHANGED <<heap, cards, types, added, origin>>

\* s.total_price
TotalPrice(s) ==
    /\ Exists(s)
    /\ last' = Call("total_price", s, "", None, FALSE,
                    Returned(total_price(World, s)))
    /\ UNCHANGED <<heap, cards, types, added, origin>>

\* s.total_condition_adjusted_price
TotalConditionAdjustedPrice(s) ==
    /\ Exists(s)
    /\ last' = Call("total_condition_adjusted_price", s, "", None, FALSE,
                    total_condition_adjusted_price(World, s))
    /\ UNCHANGED <<heap, cards, types, added, origin>>

\* s.total_my_price
TotalMyPrice(s) ==
    /\ Exists(s)
    /\ last' = Call("total_my_price", s, "", None, FALSE,
                    Returned(total_my_price(World, s)))
    /\ UNCHANGED <<heap, cards, types, added, origin>>

\* the operations against a collection, on rows that differ in printing
Next ==
    \/ \E s \in Exports, row \in Rows({""}, {1}, {<<200>>}) :
          AddCard(s, row, MaxPricedRows)
    \/ \E x \in Exports, y \in Exports : DiffSet(x, y)
    \/ \E s \in Sets, r \in 1..Len(heap), adj \in BOOLEAN :
          ApplyCardPricing(s, r, adj)
    \/ \E a \in Sets, s \in Sets, adj \in BOOLEAN : TotalAppliedPrice(a, s, adj)
    \/ \E s \in Sets, r \in 1..Len(heap) : Match(s, r)
    \/ \E s \in Sets, r \in 1..Len(heap) : Contains(s, r)
    \/ \E s \in Sets, r \in 1..Len(heap) : ContainsType(s, r)

Spec == Init /\ [][Next]_vars

\* comparing and joining collections, on rows that differ in printing,
\* condition and count. The two exports are filled alike, so the first
\* operand is the export A, the second either export.
NextDiff ==
    \/ \E s \in Exports, row \in Rows(Conditions, Counts, {<<200>>}) :
          AddCard(s, row, MaxRows)
    \/ \E row \in Rows(Conditions, {2}, {<<200>>}) : AddCard("R", row, MaxRows)
    \/ \E y \in Exports : DiffSet("A", y)
    \/ \E y \in Exports : Union("A", y)

SpecDiff == Init /\ [][NextDiff]_vars

\* pricing the records of either export by the export B. The rows differ in
\* printing and condition; those of A, which are priced, differ in count,
\* those of B, which gives the prices, in price.
NextPrice ==
    \/ \E row \in Rows(Conditions, Counts, {None}) :
          AddCard("A", row, MaxPricedRows)
    \/ \E row \in Rows(Conditions, {2}, Prices) :
          AddCard("B", row, MaxPricedRows)
    \/ \E r \in 1..Len(heap), adj \in BOOLEAN : ApplyCardPricing("B", r, adj)
    \/ \E a \in Exports, adj \in BOOLEAN : TotalAppliedPrice(a, "B", adj)

SpecPrice == Init /\ [][NextPrice]_vars

\* comparing two exports in either direction, and joining an export with its
\* diff. The rows differ in printing and count, and a row may have count 0.
NextCompare ==
    \/ \E s \in Exports, row \in Rows({""}, {0} \cup Counts, {<<200>>}) :
          AddCard(s, row, MaxRows)
    \/ \E x \in Exports, y \in Exports : DiffSet(x, y)
    \/ \E x \in Exports, y \in Exports : Eq(x, y)
    \/ \E x \in Exports : UnionDiff(x)

SpecCompare == Init /\ [][NextCompare]_vars

\* a Condition cell outside the conditions of CONDITION_PRICE_MULTIPLIERS
OtherCondition == "Damaged"

\* the rows of an export of one printing, with Price and My Price cells
PricedRows ==
    {from_deckbox_row_my_price(<<1, 2>>, c, n, pr, mp) :
        c \in Conditions \cup {OtherCondition}, n \in Counts,
        pr \in {None, <<500>>}, mp \in {None, <<300>>}}

\* the prices of the records of one export and the totals of the export
NextTotals ==
    \/ \E row \in PricedRows : AddCard("A", row, MaxPricedRows)
    \/ \E r \in 1..Len(heap) : ConditionAdjustedPrice(r)
    \/ \E r \in 1..Len(heap), adj \in BOOLEAN : ApplyCardPricing("A", r, adj)
    \/ TotalPrice("A")
    \/ TotalConditionAdjustedPrice("A")
    \/ TotalMyPrice("A")

SpecTotals == Init /\ [][NextTotals]_vars

----------------------------------------------------------------------------
\* What the properties below speak of

\* the identity keys a collection holds
Keys(s) == {cards[s][i].key : i \in 1..Len(cards[s])}

\* the count of the record a collection holds for a key
CountOf(s, k) == heap[cards[s][Find(cards[s], k)].ref].count

\* the key and count of every record of a collection, in the order held
CountsOf(s) ==
    [i \in 1..Len(cards[s]) |->
        [key |-> cards[s][i].key, count |-> heap[cards[s][i].ref].count]]

\* all a collection holds, by value: its cards and its types
Snapshot(s) ==
    [cards |-> [i \in 1..Len(cards[s]) |->
                  [key |-> cards[s][i].key, card |-> heap[cards[s][i].ref]]],
     types |-> [t \in DOMAIN types[s] |->
                  [j \in 1..Len(types[s][t]) |-> heap[types[s][t][j]]]]]

\* the objects a collection refers to
Refs(s) ==
    {cards[s][i].ref : i \in 1..Len(cards[s])}
    \cup UNION {{types[s][t][j] : j \in 1..Len(types[s][t])} : t \in DOMAIN types[s]}

\* k1 before k2 in the lexicographic order of identity tuples
KeyBefore(k1, k2) ==
    \E i \in 1..Len(k1) :
        /\ \A j \in 1..(i - 1) : k1[j] = k2[j]
        /\ IF i = Len(k1) THEN StrRank(k1[i]) < StrRank(k2[i]) ELSE k1[i] < k2[i]

\* the sum of the counts of the cards added with key k
RECURSIVE SumAdded(_, _, _)
SumAdded(seq, k, i) ==
    IF i > Len(seq) THEN 0
    ELSE (IF identity(seq[i]) = k THEN seq[i].count ELSE 0) + SumAdded(seq, k, i + 1)

\* some card of type t was added to s
TypeAdded(s, t) == \E i \in 1..Len(added[s]) : type(added[s][i]) = t

\* the first card of type t that was added to s
FirstAdded(s, t) ==
    added[s][CHOOSE i \in 1..Len(added[s]) :
                /\ type(added[s][i]) = t
                /\ \A j \in 1..(i - 1) : type(added[s][j]) # t]

\* s has a price for card c
Priceable(s, c, adj) ==
    /\ TypeAdded(s, type(c))
    /\ FirstAdded(s, type(c)).price # None
    /\ adj => c.condition \in DOMAIN CONDITION_PRICE_MULTIPLIERS

\* c.count times the first-inserted price, times c's multiplier when adjusted
Priced(s, c, adj) ==
    c.count * FirstAdded(s, type(c)).price[1]
        * (IF adj THEN CONDITION_PRICE_MULTIPLIERS[c.condition] ELSE 1)

\* the places of key k in what iter_diff yielded
Yielded(k) == {i \in 1..Len(last.card) : identity(last.card[i]) = k}

----------------------------------------------------------------------------
\* C1: x.diff_set(y) and x.iter_diff(y) hold exactly one record for every
\* identity key that is in one collection only or whose counts differ, and none
\* for any other key; the record's count is -x.count for a key of x alone,
\* y.count - x.count for a key of both, y.count for a key of y alone.
C1_DiffRecords ==
    last.op = "diff_set" =>
        LET x == last.self
            y == last.other
        IN  /\ Keys("R") \subseteq Keys(x) \cup Keys(y)
            /\ \A i \in 1..Len(last.card) :
                   identity(last.card[i]) \in Keys(x) \cup Keys(y)
            /\ \A k \in Keys(x) \cup Keys(y) :
                   LET expected ==
                           IF k \notin Keys(y) THEN 0 - CountOf(x, k)
                           ELSE IF k \notin Keys(x) THEN CountOf(y, k)
                           ELSE CountOf(y, k) - CountOf(x, k)
                       differs ==
                           \/ k \notin Keys(y)
                           \/ k \notin Keys(x)
                           \/ CountOf(x, k) # CountOf(y, k)
                   IN  IF differs
                       THEN /\ Cardinality(Yielded(k)) = 1
                            /\ \A i \in Yielded(k) : last.card[i].count = expected
                            /\ k \in Keys("R")
                            /\ CountOf("R", k) = expected
                       ELSE /\ Yielded(k) = {}
                            /\ k \notin Keys("R")

\* a diff of two collections with a key whose counts differ and a key of y
\* alone, giving two records
C1_Witness ==
    /\ last.op = "diff_set"
    /\ \E k \in Keys(last.self) \cap Keys(last.other) :
           CountOf(last.self, k) # CountOf(last.other, k)
    /\ Keys(last.other) \ Keys(last.self) # {}
    /\ Len(cards["R"]) = 2

\* C2: a collection that rows are added to holds one record per identity key
\* added, and the record's count is the sum of the counts of the cards added
\* with that key.
C2_CountIsSumOfAdded ==
    \A s \in Exports :
        /\ \A i, j \in 1..Len(cards[s]) :
               i # j => cards[s][i].key # cards[s][j].key
        /\ \A i \in 1..Len(cards[s]) :
               identity(heap[cards[s][i].ref]) = cards[s][i].key
        /\ Keys(s) = {identity(added[s][i]) : i \in 1..Len(added[s])}
        /\ \A k \in Keys(s) : CountOf(s, k) = SumAdded(added[s], k, 1)

\* two rows of one identity, of counts 2 and 3, added to a collection that
\* then holds one record of count 5
C2_Witness ==
    \E s \in Exports :
        /\ Len(added[s]) = 2
        /\ added[s][1].count = 2
        /\ added[s][2].count = 3
        /\ Len(cards[s]) = 1
        /\ heap[cards[s][1].ref].count = 5

\* C3: x.diff_set(y) leaves all that x and y hold as it was and gives a
\* result that shares no object with them; a row later added to the result,
\* also one that is summed into a record of it, leaves x and y as they were.
C3_DiffLeavesInputs ==
    [][/\ last'.op = "diff_set" =>
            /\ Snapshot("A")' = Snapshot("A")
            /\ Snapshot("B")' = Snapshot("B")
            /\ Refs("R")' \cap (Refs("A")' \cup Refs("B")') = {}
       /\ (origin = "diff_set" /\ last'.op = "add_card") =>
            /\ Snapshot("A")' = Snapshot("A")
            /\ Snapshot("B")' = Snapshot("B")]_vars

\* a row added to the result of a diff_set was summed into a record of the
\* result whose key one of the inputs holds too
C3_Witness ==
    /\ origin = "diff_set"
    /\ last.op = "add_card"
    /\ LET c == added["R"][Len(added["R"])]
       IN  /\ identity(c) \in Keys("A") \cup Keys("B")
           /\ CountOf("R", identity(c)) # c.count

\* C4: x + y leaves the count of every record of x and of y as it was, and
\* so does a row later added to the result.
C4_UnionLeavesInputs ==
    [][/\ last'.op = "union" =>
            /\ CountsOf("A")' = CountsOf("A")
            /\ CountsOf("B")' = CountsOf("B")
       /\ (origin = "union" /\ last'.op = "add_card") =>
            /\ CountsOf("A")' = CountsOf("A")
            /\ CountsOf("B")' = CountsOf("B")]_vars

\* C5: the records of x.diff_set(y) are held in ascending lexicographic order
\* of their identity keys.
C5_DiffSorted ==
    last.op = "diff_set" =>
        /\ \A i, j \in 1..Len(cards["R"]) :
               i < j => KeyBefore(cards["R"][i].key, cards["R"][j].key)
        /\ \A i \in 1..Len(cards["R"]) :
               identity(heap[cards["R"][i].ref]) = cards["R"][i].key

\* a diff of three records that iter_diff yielded in descending order
C5_Witness ==
    /\ last.op = "diff_set"
    /\ Len(last.card) = 3
    /\ Len(cards["R"]) = 3
    /\ \A i, j \in 1..3 :
           i < j => KeyBefore(identity(last.card[j]), identity(last.card[i]))

\* C6: s.apply_card_pricing(c, condition_adjusted) returns c.count times the
\* price of the first card of c's type added to s, times the multiplier of
\* c.condition when condition_adjusted, whatever was added to s after it.
C6_FirstInsertedPrice ==
    last.op = "apply_card_pricing" =>
        (Priceable(last.self, last.card, last.adjusted) =>
            last.result = Returned(Priced(last.self, last.card, last.adjusted)))

\* a Played card priced, condition adjusted, by a collection that holds two
\* records of its type in two conditions and at two prices
C6_Witness ==
    /\ last.op = "apply_card_pricing"
    /\ last.adjusted
    /\ last.card.condition = "Played"
    /\ last.result.kind = "value"
    /\ \E i, j \in 1..Len(added[last.self]) :
           /\ i < j
           /\ type(added[last.self][i]) = type(last.card)
           /\ type(added[last.self][j]) = type(last.card)
           /\ added[last.self][i].condition # added[last.self][j].condition
           /\ added[last.self][i].price # None
           /\ added[last.self][j].price # None
           /\ added[last.self][i].price # added[last.self][j].price

\* C7: s.apply_card_pricing(c) raises ValueError when no card of c's type
\* was added to s.
C7_UnseenTypeRaises ==
    (last.op = "apply_card_pricing" /\ ~TypeAdded(last.self, type(last.card)))
        => last.result = Raised("ValueError")

\* a card priced by a collection that holds cards, none of its type
C7_Witness ==
    /\ last.op = "apply_card_pricing"
    /\ ~TypeAdded(last.self, type(last.card))
    /\ Len(added[last.self]) > 0
    /\ last.result.kind = "ValueError"

\* C8: s.apply_card_pricing(c) raises ValueError when the first card of c's
\* type added to s has no price.
C8_UnpricedRaisesValueError ==
    (/\ last.op = "apply_card_pricing"
     /\ TypeAdded(last.self, type(last.card))
     /\ FirstAdded(last.self, type(last.card)).price = None)
        => last.result = Raised("ValueError")

\* the sum of Priced over the records of a from place i on
RECURSIVE SumPriced(_, _, _, _)
SumPriced(a, s, adj, i) ==
    IF i > Len(cards[a]) THEN 0
    ELSE Priced(s, heap[cards[a][i].ref], adj) + SumPriced(a, s, adj, i + 1)

\* C9: a.total_applied_price(s, condition_adjusted) returns the sum of the
\* prices s gives the records of a when s has a price for each, and raises
\* ValueError when it has none for one of them.
C9_AllOrNothing ==
    last.op = "total_applied_price" =>
        LET a == last.self
            s == last.other
        IN  IF \A i \in 1..Len(cards[a]) :
                   Priceable(s, heap[cards[a][i].ref], last.adjusted)
            THEN last.result = Returned(SumPriced(a, s, last.adjusted, 1))
            ELSE last.result = Raised("ValueError")

\* C10: s.contains_type(c) is true exactly when a card of c's type was added
\* to s, whatever was called on s before.
C10_ContainsTypeIffAdded ==
    last.op = "contains_type" =>
        (last.result.value = 1 <=> TypeAdded(last.self, type(last.card)))

----------------------------------------------------------------------------
\* the identity keys a collection holds in the world w
KeysIn(w, s) == {w.cards[s][i].key : i \in 1..Len(w.cards[s])}

\* the count of the record a collection holds for a key in the world w
CountIn(w, s, k) == w.heap[w.cards[s][Find(w.cards[s], k)].ref].count

\* C11: for every identity key that x and y both hold, the count of the key's
\* record in x.diff_set(y) is the negation of its count in y.diff_set(x), and
\* neither result holds the key when x and y hold it with equal counts.
C11_NegatedCounts ==
    last.op = "diff_set" =>
        LET x == last.self
            y == last.other
            back == diff_set(World, y, x)
        IN  \A k \in Keys(x) \cap Keys(y) :
                IF CountOf(x, k) = CountOf(y, k)
                THEN k \notin Keys("R") /\ k \notin KeysIn(back, New)
                ELSE /\ k \in Keys("R")
                     /\ k \in KeysIn(back, New)
                     /\ CountOf("R", k) = 0 - CountIn(back, New, k)

\* B.diff_set(A) of two exports that both hold a key, with different counts,
\* the count of A summed from two rows
C11_Witness ==
    /\ last.op = "diff_set"
    /\ last.self = "B"
    /\ last.other = "A"
    /\ Len(added["A"]) = 2
    /\ \E k \in Keys("A") \cap Keys("B") :
           /\ CountOf("A", k) # CountOf("B", k)
           /\ CountOf("R", k) = CountOf("A", k) - CountOf("B", k)
           /\ CountOf("A", k) = 5

\* x and y hold the same identity keys, each with the same count
SameRecords(x, y) ==
    /\ Keys(x) = Keys(y)
    /\ \A k \in Keys(x) : CountOf(x, k) = CountOf(y, k)

\* C12: x == y is true exactly when x and y hold the same identity keys with
\* equal counts, it has the value of y == x, and x.diff_set(y) is empty when x
\* and y hold the same identity keys with equal counts.
C12_EqualsIsKeysAndCounts ==
    /\ last.op = "__eq__" =>
           /\ last.result.value = 1 <=> SameRecords(last.self, last.other)
           /\ last.result.value = 1 <=> __eq__(World, last.other, last.self)
    /\ (last.op = "diff_set" /\ SameRecords(last.self, last.other)) =>
           cards["R"] = <<>>

\* A == B found true of two exports whose one record was summed from two
\* rows in A and read from one row in B
C12_Witness ==
    /\ last.op = "__eq__"
    /\ last.self = "A"
    /\ last.other = "B"
    /\ last.result.value = 1
    /\ Len(added["A"]) = 2
    /\ Len(added["B"]) = 1
    /\ Len(cards["A"]) = 1

\* B.diff_set(A) of two exports that hold the same two records
C12_WitnessDiff ==
    /\ last.op = "diff_set"
    /\ last.self = "B"
    /\ last.other = "A"
    /\ SameRecords("A", "B")
    /\ cards["R"] = <<>>

\* the multiplier of a condition, 1.00 for a condition outside the table
MultiplierOrOne(c) ==
    IF c \in DOMAIN CONDITION_PRICE_MULTIPLIERS
    THEN CONDITION_PRICE_MULTIPLIERS[c] ELSE 100

\* C13: a card's condition_adjusted_price is its price times the multiplier of
\* its condition, 1.00 for the absent condition and for a condition outside
\* the table, and s.apply_card_pricing(c, True) returns c.count times the
\* first-inserted price times that multiplier; neither fails for a condition
\* outside the table.
C13_UnknownConditionIsOne ==
    /\ (last.op = "condition_adjusted_price" /\ last.card.price # None) =>
           /\ last.result.kind = "value"
           /\ last.result.value =
                  <<last.card.price[1] * MultiplierOrOne(last.card.condition)>>
    /\ (/\ last.op = "apply_card_pricing"
        /\ last.adjusted
        /\ TypeAdded(last.self, type(last.card))
        /\ FirstAdded(last.self, type(last.card)).price # None) =>
           /\ last.result.kind = "value"
           /\ last.result.value =
                  last.card.count * FirstAdded(last.self, type(last.card)).price[1]
                      * MultiplierOrOne(last.card.condition)

\* the sum of the values, from place i on, that are not None
RECURSIVE SumDefined(_, _)
SumDefined(values, i) ==
    IF i > Len(values) THEN 0
    ELSE (IF values[i] = None THEN 0 ELSE values[i][1]) + SumDefined(values, i + 1)

\* the records a collection holds, in the order held
Records(s) == [i \in 1..Len(cards[s]) |-> heap[cards[s][i].ref]]

\* C14: s.total_price, s.total_condition_adjusted_price and s.total_my_price
\* are each the sum, over the records of s whose per-unit value is defined, of
\* that value times the record's count; a record without the value adds
\* nothing and none of the three fails.
C14_TotalsLeaveOutUndefined ==
    /\ last.op = "total_price" =>
           last.result = Returned(SumDefined(
               [i \in 1..Len(cards[last.self]) |->
                   LET c == Records(last.self)[i]
                   IN  IF c.price = None THEN None ELSE <<c.price[1] * c.count>>], 1))
    /\ last.op = "total_condition_adjusted_price" =>
           last.result = Returned(SumDefined(
               [i \in 1..Len(cards[last.self]) |->
                   LET c == Records(last.self)[i]
                   IN  IF c.price = None THEN None
                       ELSE <<c.price[1] * MultiplierOrOne(c.condition) * c.count>>], 1))
    /\ last.op = "total_my_price" =>
           last.result = Returned(SumDefined(
               [i \in 1..Len(cards[last.self]) |->
                   LET c == Records(last.self)[i]
                   IN  IF c.my_price = None THEN None
                       ELSE <<c.my_price[1] * c.count>>], 1))

\* C15: in x + x.diff_set(y) every identity key has the count it has in y, 0
\* for a key that y does not hold, every key of y is there, and the length of
\* the union is the length of y.
C15_UnionOfDiffIsOther ==
    [][last'.op = "union_diff" =>
          LET y == last'.other
          IN  /\ Keys(y) \subseteq Keys("R")'
              /\ \A k \in Keys("R")' :
                     CountOf("R", k)' = IF k \in Keys(y) THEN CountOf(y, k) ELSE 0
              /\ __len__(World, "R")' = __len__(World, y)]_vars

\* A + A.diff_set(B) where B lacks a key of A and counts another differently:
\* the union holds the first with count 0
C15_Witness ==
    /\ last.op = "union_diff"
    /\ last.self = "A"
    /\ last.other = "B"
    /\ \E k \in Keys("R") \ Keys("B") : CountOf("R", k) = 0
    /\ \E k \in Keys("B") :
           /\ SumAdded(added["A"], k, 1) # CountOf("B", k)
           /\ SumAdded(added["A"], k, 1) # 0
           /\ CountOf("R", k) = CountOf("B", k)

\* x.diff_set(y), held by R, and y.diff_set(x) hold the same identity keys with
\* negated counts; a key of x alone has count -x.count in the first and
\* x.count in the second
Antisymmetric(x, y) ==
    LET back == diff_set(World, y, x)
    IN  /\ Keys("R") = KeysIn(back, New)
        /\ \A k \in Keys("R") : CountOf("R", k) = 0 - CountIn(back, New, k)
        /\ \A k \in Keys(x) \ Keys(y) :
               /\ k \in Keys("R")
               /\ CountOf("R", k) = 0 - CountOf(x, k)
               /\ CountIn(back, New, k) = CountOf(x, k)

\* C16 as stated: x.diff_set(y) and y.diff_set(x) hold the same identity keys
\* with negated counts, a key of x alone with -x.count and x.count, and no
\* record of a diff result has count 0.
C16_AntisymmetricNoZero ==
    last.op = "diff_set" =>
        /\ Antisymmetric(last.self, last.other)
        /\ \A k \in Keys("R") : CountOf("R", k) # 0

\* C16, amended: x.diff_set(y) and y.diff_set(x) hold the same identity keys
\* with negated counts, a key of x alone with -x.count and x.count, and a
\* record of a diff result has count 0 only for a key that one of x and y
\* alone holds, with count 0.
C16_AntisymmetricZeroFromZero ==
    last.op = "diff_set" =>
        LET x == last.self
            y == last.other
        IN  /\ Antisymmetric(x, y)
            /\ \A k \in Keys("R") :
                   CountOf("R", k) = 0 =>
                       \/ k \in Keys(x) \ Keys(y) /\ CountOf(x, k) = 0
                       \/ k \in Keys(y) \ Keys(x) /\ CountOf(y, k) = 0

\* B.diff_set(A) where A alone holds a key with a count above 0 and B alone
\* holds a key with count 0: the result has both, the second with count 0
C16_Witness ==
    /\ last.op = "diff_set"
    /\ last.self = "B"
    /\ last.other = "A"
    /\ \E k \in Keys("A") \ Keys("B") :
           CountOf("A", k) > 0 /\ CountOf("R", k) = CountOf("A", k)
    /\ \E k \in Keys("B") \ Keys("A") :
           CountOf("B", k) = 0 /\ CountOf("R", k) = 0

====
